---- MODULE Spec2Model ----
(***************************************************************************)
(* Model of Diabetes.py, a Streamlit dashboard over the diabetes dataset.  *)
(* Streamlit runs the script top to bottom once at start and once more     *)
(* after every widget change; the widgets keep their values between runs.  *)
(* The state is the widget values plus everything the last run computed.   *)
(*                                                                         *)
(* Numbers: the dataset's columns are floats.  A column value v is held as *)
(* the integer v * Scale, so values are multiples of 1/Scale; integers and *)
(* non-integers both occur.  The slider works on Python ints (unscaled).   *)
(* Of the ten feature columns only sex and bmi carry data here (the others *)
(* are only ever handed to the charts); all ten are column names.  The bmi *)
(* column, read only by the Mean BMI metric and describe(), holds a single *)
(* value.                                                                  *)
(***************************************************************************)
EXTENDS Integers, Sequences, FiniteSets

VARIABLES diabetes, df, x_feature_readable, y_feature_readable, target_range,
          colour_by_sex, show_raw, x_feature, y_feature, filtered, page,
          status, probe

vars == <<diabetes, df, x_feature_readable, y_feature_readable, target_range,
          colour_by_sex, show_raw, x_feature, y_feature, filtered, page,
          status, probe>>

widgets == <<x_feature_readable, y_feature_readable, target_range,
             colour_by_sex, show_raw>>

(* ------------------------------ bounds -------------------------------- *)

\* column values are multiples of 1/Scale
Scale == 2
\* the largest target, in units of 1/Scale
MaxTarget == 4
\* the largest number of records of a dataset
MaxRows == 3
\* the same, where every widget is operated
MaxDashRows == 2
\* bounds handed to the filter directly range over -1 .. MaxBound
MaxBound == 3

TargetVals == 0..MaxTarget
SexVals == {-1, 0, 1}
BmiVals == {1}

RawRows == [target : TargetVals, sex : SexVals, bmi : BmiVals]

Datasets == UNION {[1..n -> RawRows] : n \in 1..MaxRows}

\* where every widget is operated the sex column takes one positive and one
\* negative value, as it does in the bundled data, and the targets stay
\* below the largest one
DashRows == {r \in RawRows : r.sex # 0 /\ r.target < MaxTarget}

DashDatasets == UNION {[1..n -> DashRows] : n \in 1..MaxDashRows}

\* four records with targets 25, 50, 75, 100 and sex signs +, -, +, -
ScenarioData ==
    <<[target |-> 25 * Scale, sex |-> 1, bmi |-> 1],
      [target |-> 50 * Scale, sex |-> -1, bmi |-> 1],
      [target |-> 75 * Scale, sex |-> 1, bmi |-> 1],
      [target |-> 100 * Scale, sex |-> -1, bmi |-> 1]>>

(* --------------------------- general helpers --------------------------- *)

Range(f) == {f[i] : i \in DOMAIN f}

RECURSIVE SeqSum(_, _)
SeqSum(rows, col) ==
    IF rows = <<>> THEN 0 ELSE rows[1][col] + SeqSum(Tail(rows), col)

SetMin(S) == CHOOSE x \in S : \A y \in S : x <= y

SetMax(S) == CHOOSE x \in S : \A y \in S : x >= y

RECURSIVE Count(_, _)
Count(rows, cat) ==
    IF rows = <<>> THEN 0
    ELSE (IF rows[1].sex_cat = cat THEN 1 ELSE 0) + Count(Tail(rows), cat)

\* num / den (den > 0) rounded to the nearest integer, ties to even
RoundHalfEven(num, den) ==
    LET q == num \div den
        r == num % den
    IN  IF 2 * r < den THEN q
        ELSE IF 2 * r > den THEN q + 1
        ELSE IF q % 2 = 0 THEN q ELSE q + 1

(* ------------------- feature catalog (lines 21-36) --------------------- *)

\* what indexing a dict with an unknown key raises (a LookupError)
KeyError == "KeyError"

\* the dict literal with the last display name typed twice
feature_name_items_repeated ==
    << <<"age", "Age">>,
       <<"sex", "Sex">>,
       <<"bmi", "Body Mass Index (BMI)">>,
       <<"bp", "Blood Pressure">>,
       <<"s1", "Total Serum Cholesterol (TC)">>,
       <<"s2", "Low-Density Lipoprotein (LDL)">>,
       <<"s3", "High-Density Lipoprotein (HDL)">>,
       <<"s4", "Triglycerides (TG)">>,
       <<"s5", "Serum Glucose">>,
       <<"s6", "Serum Glucose">> >>

\* the dict literal's items, in insertion order
feature_name_items ==
    << <<"age", "Age">>,
       <<"sex", "Sex">>,
       <<"bmi", "Body Mass Index (BMI)">>,
       <<"bp", "Blood Pressure">>,
       <<"s1", "Total Serum Cholesterol (TC)">>,
       <<"s2", "Low-Density Lipoprotein (LDL)">>,
       <<"s3", "High-Density Lipoprotein (HDL)">>,
       <<"s4", "Triglycerides (TG)">>,
       <<"s5", "Serum Glucose">>,
       <<"s6", "Serum TSH">> >>

\* the last item whose component c equals key (a later dict entry overwrites)
LastItem(c, key) ==
    feature_name_items[
        SetMax({i \in DOMAIN feature_name_items : feature_name_items[i][c] = key})]

feature_name_map ==
    [k \in {it[1] : it \in Range(feature_name_items)} |-> LastItem(1, k)[2]]

\* {v: k for k, v in feature_name_map.items()}
readable_to_original ==
    [v \in {it[2] : it \in Range(feature_name_items)} |-> LastItem(2, v)[1]]

\* list(feature_name_map.values())
readable_features ==
    [i \in DOMAIN feature_name_items |-> feature_name_map[feature_name_items[i][1]]]

\* feature_name_map[id]
toDisplay(id) ==
    IF id \in DOMAIN feature_name_map THEN feature_name_map[id] ELSE KeyError

\* readable_to_original.get(name, name): an unknown name passes through
toIdentifier_get(name) ==
    IF name \in DOMAIN readable_to_original THEN readable_to_original[name]
    ELSE name

\* readable_to_original[name]
toIdentifier(name) ==
    IF name \in DOMAIN readable_to_original THEN readable_to_original[name]
    ELSE KeyError

\* DataFrame.rename(columns=feature_name_map): an unknown column keeps its name
RenameColumn(c) ==
    IF c \in DOMAIN feature_name_map THEN feature_name_map[c] ELSE c

(* ------------------ dataset preparation (lines 13-19) ------------------ *)

\* the lambda with v >= 0
SexCat_ge(v) == IF v >= 0 THEN "male" ELSE "female"

\* lambda v: "male" if v > 0 else "female"
SexCat(v) == IF v > 0 THEN "male" ELSE "female"

\* the DataFrame: a RangeIndex from 0, the data columns, target and sex_cat
PrepareDataset(data) ==
    [i \in DOMAIN data |->
        [index |-> i - 1, target |-> data[i].target, sex |-> data[i].sex,
         bmi |-> data[i].bmi, sex_cat |-> SexCat(data[i].sex)]]

\* diabetes.feature_names
feature_names ==
    <<"age", "sex", "bmi", "bp", "s1", "s2", "s3", "s4", "s5", "s6">>

\* the columns of df
df_columns == Range(feature_names) \cup {"target", "sex_cat"}

(* --------------------- target filter (lines 88-108) -------------------- *)

\* Python's int() of a float: truncation toward zero
PyInt(v) == IF v >= 0 THEN v \div Scale ELSE -((-v) \div Scale)

min_target(table) == PyInt(SetMin({table[i].target : i \in DOMAIN table}))

max_target(table) == PyInt(SetMax({table[i].target : i \in DOMAIN table}))

\* the mask with an exclusive upper end
RangeFilter_lt(table, lo, hi) ==
    SelectSeq(table, LAMBDA r : r.target >= lo * Scale /\ r.target < hi * Scale)

\* the filter followed by .iloc[1:]
RangeFilter_iloc1(table, lo, hi) ==
    LET kept == SelectSeq(table, LAMBDA r : r.target >= lo * Scale
                                           /\ r.target <= hi * Scale)
    IN  IF kept = <<>> THEN kept ELSE Tail(kept)

\* df[(df["target"] >= lo) & (df["target"] <= hi)].copy(): the rows whose
\* mask is true, in order, each keeping its index label
RangeFilter(table, lo, hi) ==
    SelectSeq(table, LAMBDA r : r.target >= lo * Scale /\ r.target <= hi * Scale)

(* ------------------ summary projection (lines 116-192) ----------------- *)

\* the number of rows st.dataframe shows of the raw filtered data
RawHead == 200
\* nbins of the histogram
HistBins == 30
\* decimals of the two mean metrics (":.2f") and of describe().round(3)
MetricDecimals == 2
DescribeDecimals == 3

\* the mean with NaN replaced by 0 (fillna(0))
SeriesMean_fillna(rows, col) ==
    IF rows = <<>> THEN [nan |-> FALSE, num |-> 0, den |-> 1]
    ELSE [nan |-> FALSE, num |-> SeqSum(rows, col), den |-> Len(rows) * Scale]

\* Series.mean(): NaN on no rows, else the exact quotient num / den
SeriesMean(rows, col) ==
    IF rows = <<>> THEN [nan |-> TRUE, num |-> 0, den |-> 1]
    ELSE [nan |-> FALSE, num |-> SeqSum(rows, col), den |-> Len(rows) * Scale]

\* the decimals cut off instead of rounded
Rounded_floor(x, d) ==
    IF x.nan THEN [nan |-> TRUE, units |-> 0]
    ELSE [nan |-> FALSE, units |-> (x.num * 10^d) \div x.den]

\* a float shown with d decimals: "nan", or the value in units of 10^-d
Rounded(x, d) ==
    IF x.nan THEN [nan |-> TRUE, units |-> 0]
    ELSE [nan |-> FALSE, units |-> RoundHalfEven(x.num * 10^d, x.den)]

\* one column of DataFrame.describe().round(3): count, mean, min and max
\* (std and the quartiles are not modelled)
DescribeColumn(rows, col) ==
    LET vals == {rows[i][col] : i \in DOMAIN rows}
        one(v) == [nan |-> FALSE, num |-> v, den |-> Scale]
        none == [nan |-> TRUE, num |-> 0, den |-> 1]
    IN  [count |-> Len(rows),
         mean |-> Rounded(SeriesMean(rows, col), DescribeDecimals),
         min |-> Rounded(IF vals = {} THEN none ELSE one(SetMin(vals)),
                         DescribeDecimals),
         max |-> Rounded(IF vals = {} THEN none ELSE one(SetMax(vals)),
                         DescribeDecimals)]

\* Series.value_counts() as a table: one row per category that occurs, the
\* larger count first, equal counts in order of first occurrence
ValueCounts(rows) ==
    LET m == Count(rows, "male")
        f == Count(rows, "female")
        male == <<[Gender |-> "male", Count |-> m]>>
        female == <<[Gender |-> "female", Count |-> f]>>
    IN  IF rows = <<>> THEN <<>>
        ELSE IF f = 0 THEN male
        ELSE IF m = 0 THEN female
        ELSE IF m > f \/ (m = f /\ rows[1].sex_cat = "male")
             THEN male \o female
        ELSE female \o male

\* reset_index(drop=True).head(200)
RawTable(rows) ==
    [i \in 1..(IF Len(rows) < RawHead THEN Len(rows) ELSE RawHead) |->
        [rows[i] EXCEPT !.index = i - 1]]

\* what a run of the script shows when no lookup failed
Render(view, xf, yf, colour, raw) ==
    [rows_metric |-> Len(view),
     mean_target |-> Rounded(SeriesMean(view, "target"), MetricDecimals),
     mean_bmi |-> Rounded(SeriesMean(view, "bmi"), MetricDecimals),
     scatter |-> [x |-> xf, y |-> yf,
                  color |-> IF colour THEN "sex_cat" ELSE "None",
                  xlabel |-> toDisplay(xf), ylabel |-> toDisplay(yf)],
     hist |-> [x |-> "target", nbins |-> HistBins],
     pair_columns |-> <<RenameColumn("bmi"), RenameColumn("bp"),
                        RenameColumn("target")>>,
     describe |-> [target |-> DescribeColumn(view, "target"),
                   bmi |-> DescribeColumn(view, "bmi"),
                   sex |-> DescribeColumn(view, "sex")],
     counts |-> ValueCounts(view),
     raw |-> IF raw THEN RawTable(view) ELSE <<>>]

\* a run that an exception ended shows none of this
NoPage == [rows_metric |-> 0]

(* --------------------------- one script run ---------------------------- *)

\* A run of the whole script on the widgets' values: the table, the
\* translated selections, the filtered view, the page and how the run ended.
Script(data, xr, yr, rng, colour, raw) ==
    LET table == PrepareDataset(data)
        xf == toIdentifier(xr)
        yf == toIdentifier(yr)
        view == RangeFilter(table, rng[1], rng[2])
        \* line 85 or 86 raises; the scatter plot finds no such column;
        \* or line 136, 137 or 142 raises
        failed == \/ KeyError \in {xf, yf}
                  \/ {xf, yf} \ df_columns # {}
                  \/ KeyError \in {toDisplay(xf), toDisplay(yf)}
    IN  [df |-> table, x_feature |-> xf, y_feature |-> yf,
         filtered |-> IF KeyError \in {xf, yf} THEN <<>> ELSE view,
         page |-> IF failed THEN NoPage ELSE Render(view, xf, yf, colour, raw),
         status |-> IF failed THEN KeyError ELSE "ok"]

\* a run that filters the view already shown, and keeps it as the table
Rerun_in_place ==
    \E out \in {Script(diabetes, x_feature_readable', y_feature_readable',
                       target_range', colour_by_sex', show_raw')} :
        /\ df' = filtered
        /\ x_feature' = out.x_feature
        /\ y_feature' = out.y_feature
        /\ filtered' = RangeFilter(filtered, target_range'[1], target_range'[2])
        /\ page' = out.page
        /\ status' = out.status
        /\ UNCHANGED <<diabetes, probe>>

\* The widgets hold their primed values and the script runs on them, top to
\* bottom: it reloads the dataset and recomputes everything it shows.
Rerun ==
    \E out \in {Script(diabetes, x_feature_readable', y_feature_readable',
                       target_range', colour_by_sex', show_raw')} :
        /\ df' = out.df
        /\ x_feature' = out.x_feature
        /\ y_feature' = out.y_feature
        /\ filtered' = out.filtered
        /\ page' = out.page
        /\ status' = out.status
        /\ UNCHANGED <<diabetes, probe>>

NoProbe == [op |-> "none", key |-> "", result |-> "", back |-> ""]

\* the first run on a dataset: selectboxes at index 2 and 3, the slider at
\* its full range, colour on, raw data off
Start(data) ==
    /\ diabetes = data
    /\ x_feature_readable = readable_features[3]
    /\ y_feature_readable = readable_features[4]
    /\ target_range = <<min_target(PrepareDataset(data)),
                        max_target(PrepareDataset(data))>>
    /\ colour_by_sex = TRUE
    /\ show_raw = FALSE
    /\ \E out \in {Script(data, x_feature_readable, y_feature_readable,
                          target_range, colour_by_sex, show_raw)} :
           /\ df = out.df
           /\ x_feature = out.x_feature
           /\ y_feature = out.y_feature
           /\ filtered = out.filtered
           /\ page = out.page
           /\ status = out.status
    /\ probe = NoProbe

Init == \E data \in DashDatasets : Start(data)

InitRange == \E data \in Datasets \cup {ScenarioData} : Start(data)

InitCatalog == Start(ScenarioData)

(* ---------------------------- widget changes --------------------------- *)

SelectX ==
    \E name \in Range(readable_features) :
        /\ name # x_feature_readable
        /\ x_feature_readable' = name
        /\ UNCHANGED <<y_feature_readable, target_range, colour_by_sex, show_raw>>
        /\ Rerun

SelectY ==
    \E name \in Range(readable_features) :
        /\ name # y_feature_readable
        /\ y_feature_readable' = name
        /\ UNCHANGED <<x_feature_readable, target_range, colour_by_sex, show_raw>>
        /\ Rerun

\* the range slider over min_target..max_target: one thumb is dragged, and
\* the lower one never passes the upper one
SlideRange ==
    /\ \/ \E lo \in min_target(df)..target_range[2] :
            /\ lo # target_range[1]
            /\ target_range' = <<lo, target_range[2]>>
       \/ \E hi \in target_range[1]..max_target(df) :
            /\ hi # target_range[2]
            /\ target_range' = <<target_range[1], hi>>
    /\ UNCHANGED <<x_feature_readable, y_feature_readable, colour_by_sex,
                   show_raw>>
    /\ Rerun

ToggleColour ==
    /\ colour_by_sex' = ~colour_by_sex
    /\ UNCHANGED <<x_feature_readable, y_feature_readable, target_range, show_raw>>
    /\ Rerun

ToggleRaw ==
    /\ show_raw' = ~show_raw
    /\ UNCHANGED <<x_feature_readable, y_feature_readable, target_range,
                   colour_by_sex>>
    /\ Rerun

Next == SelectX \/ SelectY \/ SlideRange \/ ToggleColour \/ ToggleRaw

\* the dashboard with every widget operated
Spec == Init /\ [][Next]_vars

\* the dashboard with only the range slider operated, on larger datasets
SpecRange == InitRange /\ [][SlideRange]_vars

(* ------------- the filter handed bounds by a caller directly ----------- *)

\* lines 105-108 run on bounds that did not come from the slider
CallFilter ==
    \E lo \in -1..MaxBound, hi \in -1..MaxBound :
        /\ <<lo, hi>> # target_range
        /\ target_range' = <<lo, hi>>
        /\ UNCHANGED <<x_feature_readable, y_feature_readable, colour_by_sex,
                       show_raw>>
        /\ Rerun

SpecFilter == Init /\ [][CallFilter]_vars

(* ------------------ the catalog's lookups, called directly ------------- *)

ProbeKeys ==
    {it[1] : it \in Range(feature_name_items)}
    \cup {it[2] : it \in Range(feature_name_items)}
    \cup {"target", "sex_cat", "Gender", "BMI", "Disease Progression Score",
          "s7"}

ProbeToDisplay ==
    /\ \E k \in ProbeKeys :
          probe' = [op |-> "toDisplay", key |-> k, result |-> toDisplay(k),
                    back |-> ""]
    /\ UNCHANGED <<diabetes, df, widgets, x_feature, y_feature, filtered, page,
                   status>>

ProbeToIdentifier ==
    /\ \E k \in ProbeKeys :
          probe' = [op |-> "toIdentifier", key |-> k,
                    result |-> toIdentifier(k), back |-> ""]
    /\ UNCHANGED <<diabetes, df, widgets, x_feature, y_feature, filtered, page,
                   status>>

\* a lookup that succeeded is translated back with the other dict
ProbeBack ==
    /\ probe.op # "none"
    /\ probe.back = ""
    /\ probe.result # KeyError
    /\ probe' = [probe EXCEPT !.back = IF probe.op = "toDisplay"
                                       THEN toIdentifier(probe.result)
                                       ELSE toDisplay(probe.result)]
    /\ UNCHANGED <<diabetes, df, widgets, x_feature, y_feature, filtered, page,
                   status>>

NextCatalog ==
    SelectX \/ SelectY \/ ProbeToDisplay \/ ProbeToIdentifier \/ ProbeBack

SpecCatalog == InitCatalog /\ [][NextCatalog]_vars

(* ============================== properties ============================= *)

KnownIds == {"age", "sex", "bmi", "bp", "s1", "s2", "s3", "s4", "s5", "s6"}

KnownNames ==
    {"Age", "Sex", "Body Mass Index (BMI)", "Blood Pressure",
     "Total Serum Cholesterol (TC)", "Low-Density Lipoprotein (LDL)",
     "High-Density Lipoprotein (HDL)", "Triglycerides (TG)", "Serum Glucose",
     "Serum TSH"}

\* the range is one the slider offers
InSliderBounds ==
    /\ min_target(df) <= target_range[1]
    /\ target_range[1] <= target_range[2]
    /\ target_range[2] <= max_target(df)

\* view holds exactly the rows of table with lo <= target <= hi, each once
\* and unchanged, in the table's order
ExactView(table, view, lo, hi) ==
    /\ {r.index : r \in Range(view)} =
       {table[i].index : i \in {j \in DOMAIN table :
            lo * Scale <= table[j].target /\ table[j].target <= hi * Scale}}
    /\ \A i \in DOMAIN view : view[i] = table[view[i].index + 1]
    /\ \A i \in DOMAIN view : \A j \in DOMAIN view :
          i < j => view[i].index < view[j].index

\* C1: for a range lo <= hi inside the slider bounds the filtered view holds
\* exactly the records with lo <= target <= hi, both ends inclusive, in the
\* base table's order; with lo = hi only records whose target equals lo.
C1_FilterExact ==
    InSliderBounds =>
        /\ ExactView(df, filtered, target_range[1], target_range[2])
        /\ target_range[1] = target_range[2] =>
              \A i \in DOMAIN filtered :
                  filtered[i].target = target_range[1] * Scale

\* a row at each end of the range is kept and a row between two kept rows
\* is dropped, after the slider moved
C1_Witness ==
    /\ Len(df) = 3
    /\ target_range # <<min_target(df), max_target(df)>>
    /\ Len(filtered) = 2
    /\ filtered[1].index = 0
    /\ filtered[2].index = 2
    /\ filtered[1].target = target_range[1] * Scale
    /\ filtered[2].target = target_range[2] * Scale
    /\ target_range[1] < target_range[2]

C3_DerivedCategory ==
    \A r \in Range(df) \cup Range(filtered) :
        /\ r.sex_cat \in {"male", "female"}
        /\ r.sex_cat = "male" <=> r.sex > 0
        /\ r.sex_cat = "female" <=> r.sex <= 0

\* the view shows a record with sex 0, one with a negative and one with a
\* positive sex value
C3_Witness ==
    /\ \E r \in Range(filtered) : r.sex = 0 /\ r.sex_cat = "female"
    /\ \E r \in Range(filtered) : r.sex < 0 /\ r.sex_cat = "female"
    /\ \E r \in Range(filtered) : r.sex > 0 /\ r.sex_cat = "male"

\* C4: the catalog is a bijection over exactly ten entries: translating an
\* identifier to its display name and back gives the identifier, and the
\* same from a display name; no two identifiers share a display name;
\* "bmi" and "Body Mass Index (BMI)" translate to each other.
C4_CatalogBijection ==
    /\ DOMAIN feature_name_map = KnownIds
    /\ DOMAIN readable_to_original = KnownNames
    /\ Cardinality(DOMAIN feature_name_map) = 10
    /\ Cardinality(DOMAIN readable_to_original) = 10
    /\ \A a \in KnownIds : \A b \in KnownIds :
          a # b => toDisplay(a) # toDisplay(b)
    /\ (probe.op = "toDisplay" /\ probe.key \in KnownIds) =>
          /\ probe.result \in KnownNames
          /\ probe.back \in {"", probe.key}
    /\ (probe.op = "toIdentifier" /\ probe.key \in KnownNames) =>
          /\ probe.result \in KnownIds
          /\ probe.back \in {"", probe.key}
    /\ (probe.op = "toDisplay" /\ probe.key = "bmi") =>
          probe.result = "Body Mass Index (BMI)"
    /\ (probe.op = "toIdentifier" /\ probe.key = "Body Mass Index (BMI)") =>
          probe.result = "bmi"

\* the last identifier was translated to its display name and back
C4_Witness ==
    /\ probe.op = "toDisplay"
    /\ probe.key = "s6"
    /\ probe.result = "Serum TSH"
    /\ probe.back = "s6"

C6_LookupErrors ==
    /\ (probe.op = "toDisplay" /\ probe.key \notin KnownIds) =>
          probe.result = KeyError
    /\ (probe.op = "toIdentifier" /\ probe.key \notin KnownNames) =>
          probe.result = KeyError
    /\ x_feature_readable \in KnownNames
    /\ y_feature_readable \in KnownNames
    /\ x_feature \in KnownIds
    /\ y_feature \in KnownIds
    /\ status = "ok"
    /\ page.scatter.xlabel = x_feature_readable
    /\ page.scatter.ylabel = y_feature_readable

\* an unknown name was looked up after both selections were changed
C6_Witness ==
    /\ probe.op = "toIdentifier"
    /\ probe.key = "BMI"
    /\ probe.result = KeyError
    /\ x_feature_readable = "Serum TSH"
    /\ x_feature = "s6"
    /\ y_feature_readable = "Age"
    /\ y_feature = "age"

\* C7: when the range matches no record the run still ends normally: the
\* view is empty, Filtered Rows is 0, both mean metrics show nan, and the
\* statistics and the category counts are produced with zero counts / no rows.
C7_EmptyView ==
    filtered = <<>> =>
        /\ status = "ok"
        /\ page.rows_metric = 0
        /\ page.mean_target.nan
        /\ page.mean_bmi.nan
        /\ \A c \in {"target", "bmi", "sex"} :
              /\ page.describe[c].count = 0
              /\ page.describe[c].mean.nan
              /\ page.describe[c].min.nan
              /\ page.describe[c].max.nan
        /\ page.counts = <<>>

\* the slider was moved to a single value between two targets
C7_Witness ==
    /\ filtered = <<>>
    /\ Len(df) >= 2
    /\ target_range[1] = target_range[2]
    /\ target_range # <<min_target(df), max_target(df)>>
    /\ page.rows_metric = 0

\* C8: filtering the filtered view again with the same bounds returns the
\* same records in the same order.
C8_FilterIdempotent ==
    RangeFilter(filtered, target_range[1], target_range[2]) = filtered

\* a view of two of three records, after the slider moved
C8_Witness ==
    /\ Len(df) = 3
    /\ Len(filtered) = 2
    /\ target_range # <<min_target(df), max_target(df)>>

\* C9: no widget change alters the base table, and the view shown after it
\* is determined by the base table and the new range alone.
C9_Frame ==
    [][/\ df' = df
       /\ diabetes' = diabetes
       /\ ExactView(df, filtered', target_range'[1], target_range'[2])]_vars

\* every widget was changed and the view is a proper part of the table
C9_Witness ==
    /\ x_feature_readable # readable_features[3]
    /\ y_feature_readable # readable_features[4]
    /\ ~colour_by_sex
    /\ show_raw
    /\ target_range # <<min_target(df), max_target(df)>>
    /\ filtered # <<>>
    /\ filtered # df

\* the scenario's outcome: targets 50, 75, 100 in that order, categories
\* female, male, female, three rows, a mean of 75
ScenarioOutcome ==
    (diabetes = ScenarioData /\ target_range = <<50, 100>>) =>
        /\ Len(filtered) = 3
        /\ [i \in 1..3 |-> filtered[i].target] =
           <<50 * Scale, 75 * Scale, 100 * Scale>>
        /\ [i \in 1..3 |-> filtered[i].sex_cat] = <<"female", "male", "female">>
        /\ page.rows_metric = 3
        /\ page.mean_target = [nan |-> FALSE, units |-> 7500]

CountsTotal ==
    SeqSum([i \in DOMAIN page.counts |-> [n |-> page.counts[i].Count]], "n")

\* C10 as stated: the scenario's outcome; Filtered Rows is the number of
\* records of the view, the mean-target metric is the sum of their targets
\* divided by that number, and the category counts sum to that number.
C10_MetricsExact ==
    /\ ScenarioOutcome
    /\ page.rows_metric = Len(filtered)
    /\ CountsTotal = Len(filtered)
    /\ filtered # <<>> =>
          /\ ~page.mean_target.nan
          /\ page.mean_target.units * Len(filtered) * Scale =
             100 * SeqSum(filtered, "target")

\* C10 amended: as above, but the mean-target metric is that quotient
\* rounded to two decimals (75.00 in the scenario).
C10_MetricsRounded ==
    /\ ScenarioOutcome
    /\ page.rows_metric = Len(filtered)
    /\ CountsTotal = Len(filtered)
    /\ filtered # <<>> =>
          /\ ~page.mean_target.nan
          /\ LET exact == 100 * SeqSum(filtered, "target")
                 shown == page.mean_target.units * Len(filtered) * Scale
             IN  /\ 2 * (shown - exact) <= Len(filtered) * Scale
                 /\ 2 * (exact - shown) <= Len(filtered) * Scale

\* the scenario's range was selected on the scenario's dataset
C10_Witness ==
    /\ diabetes = ScenarioData
    /\ target_range = <<50, 100>>
    /\ page.rows_metric = 3
    /\ page.mean_target.units = 7500

====
